---- MODULE Spec2Model ----
(***************************************************************************)
(* A model of proximity_skin_baker.py: the path arithmetic, the skeleton   *)
(* extraction and replication, the skin rebinding, the namespace cleanup   *)
(* and the build / bake handlers of SkinBaker, run against a model of the  *)
(* host scene (a DAG of named nodes, namespaces, skin bindings, proximity  *)
(* wraps and the active selection).                                        *)
(*                                                                         *)
(* Python strings are modelled as sequences of one-character strings, so   *)
(* that split, join, startswith and sorted act on characters exactly as    *)
(* the code's string operations do.                                        *)
(***************************************************************************)
EXTENDS Integers, Sequences, FiniteSets, TLC

VARIABLES
    path,         \* SpecPath: the joint path handed to build_path_from_root
    root_path,    \* SpecPath: the root path handed to build_path_from_root
    result,       \* SpecPath: what the call produced ("pending" before it)
    nodes,        \* the scene's DAG nodes
    namespaces,   \* the scene's namespaces
    skins,        \* the scene's skin bindings
    wraps,        \* the scene's proximity wraps
    selection,    \* the scene's active selection
    ui,           \* the three text fields of the panel
    extracted_skeleton, \* what the last _build got from get_skeleton_data
    extracted_skin,     \* what the last _build got from get_skin_data
    bake_call,    \* the arguments of the last _bake's mc.bakeDeformer call
    skin_request, \* what the last _bake asked mc.skinCluster and set_skin for
    cleanup_called, \* whether the last handler reached cleanup()
    before,       \* the scene the last handler or function started from
    lastOp,       \* the handler or function that ran last
    err,          \* the step of it that raised, and the exception
    builds        \* how many times _build ran

pathVars == <<path, root_path, result>>
sceneVars == <<nodes, namespaces, skins, wraps, selection>>
toolVars == <<ui, extracted_skeleton, extracted_skin, bake_call, skin_request,
              cleanup_called, before, lastOp, err, builds>>
vars == <<pathVars, sceneVars, toolVars>>

----------------------------------------------------------------------------
(* Evaluation helper *)

\* F applied to the value of v, with v evaluated once
With(v, F(_)) == CHOOSE r \in { F(x) : x \in {v} } : TRUE

----------------------------------------------------------------------------
(* Python string primitives *)

\* code point order of the characters the model uses (sorted() compares by it)
Ord(c) ==
    CASE c = "*" -> 42
      [] c = "1" -> 49
      [] c = "2" -> 50
      [] c = "3" -> 51
      [] c = "4" -> 52
      [] c = "5" -> 53
      [] c = "6" -> 54
      [] c = "7" -> 55
      [] c = "8" -> 56
      [] c = "9" -> 57
      [] c = ":" -> 58
      [] c = "_" -> 95
      [] c = "a" -> 97
      [] c = "b" -> 98
      [] c = "c" -> 99
      [] c = "e" -> 101
      [] c = "g" -> 103
      [] c = "i" -> 105
      [] c = "k" -> 107
      [] c = "m" -> 109
      [] c = "o" -> 111
      [] c = "p" -> 112
      [] c = "r" -> 114
      [] c = "s" -> 115
      [] c = "t" -> 116
      [] c = "x" -> 120
      [] c = "y" -> 121
      [] c = "|" -> 124

\* s.startswith(p)
StartsWith(s, p) ==
    /\ Len(p) <= Len(s)
    /\ SubSeq(s, 1, Len(p)) = p

\* s < t for Python strings: at the first place they differ, or s the shorter
StrLess(s, t) ==
    LET n == IF Len(s) < Len(t) THEN Len(s) ELSE Len(t)
        diff == { i \in 1..n : s[i] # t[i] }
    IN  IF diff = {} THEN Len(s) < Len(t)
        ELSE With(CHOOSE i \in diff : \A j \in diff : i <= j,
                  LAMBDA i : Ord(s[i]) < Ord(t[i]))

\* sorted(S) for a collection S of distinct strings
RECURSIVE Sorted(_)
Sorted(S) ==
    IF S = {} THEN <<>>
    ELSE With(CHOOSE x \in S : \A y \in S : ~StrLess(y, x),
              LAMBDA m : <<m>> \o Sorted(S \ {m}))

\* the places where s.split(sep) cuts s: of the occurrences of sep in s, the
\* first, and every one that does not overlap a cut before it
Cuts(s, sep) ==
    With({ i \in 1..(Len(s) - Len(sep) + 1) : SubSeq(s, i, i + Len(sep) - 1) = sep },
         LAMBDA M :
        CHOOSE G \in SUBSET M :
            \A i \in M : (i \in G) <=> ~\E j \in G : j < i /\ i < j + Len(sep))

\* s.split(sep): the pieces of s between the cuts
Split(s, sep) ==
    With(Cuts(s, sep), LAMBDA G :
        [k \in 1..(Cardinality(G) + 1) |->
            SubSeq(s,
                   IF k = 1 THEN 1
                   ELSE (CHOOSE g \in G : Cardinality({ h \in G : h < g }) = k - 2)
                            + Len(sep),
                   IF k = Cardinality(G) + 1 THEN Len(s)
                   ELSE (CHOOSE g \in G : Cardinality({ h \in G : h < g }) = k - 1) - 1)])

\* sep.join(parts)
RECURSIVE Join(_, _)
Join(sep, parts) ==
    IF parts = <<>> THEN <<>>
    ELSE IF Len(parts) = 1 THEN parts[1]
    ELSE parts[1] \o sep \o Join(sep, Tail(parts))

Last(seq) == seq[Len(seq)]

Bar == <<"|">>
Colon == <<":">>

----------------------------------------------------------------------------
(* Path arithmetic *)

\* the outcome of a call: a value, or the exception it raised
Ok(v) == [ok |-> TRUE, val |-> v, exc |-> "none"]
Raise(e) == [ok |-> FALSE, val |-> <<>>, exc |-> e]

\* build_path_from_root(path, root_path): the two-name unpacking of the split
\* raises ValueError unless root_path occurs exactly once in path
build_path_from_root(p, r) ==
    With(Split(p, r), LAMBDA pieces :
        IF Len(pieces) # 2 THEN Raise("ValueError")
        ELSE Ok(Bar \o Last(Split(r, Bar)) \o pieces[2]))

\* add_namespace_to_full_path(namespace, full_path_name)
add_namespace_to_full_path(namespace, full_path_name) ==
    LET ns == IF namespace # <<>> THEN namespace \o Colon ELSE namespace
    IN  With(Tail(Split(full_path_name, Bar)), LAMBDA segs :
            Join(Bar, [i \in DOMAIN segs |-> ns \o segs[i]]))

----------------------------------------------------------------------------
(* The short names the model draws node names from *)

\* a plain name, a name that starts with it, and a name in a namespace of
\* its own
Names == { <<"a">>, <<"a", "b">>, <<"c", ":", "a">> }
BelowNames == { <<"a">>, <<"a", "b">> }

\* the full path string of a sequence of segment names
FullPath(segs) ==
    IF segs = <<>> THEN <<>> ELSE Bar \o Join(Bar, segs)

----------------------------------------------------------------------------
(* The host scene.  A scene is a record                                    *)
(*   nodes      : the DAG nodes, each with its full path as a sequence of  *)
(*                segment names (names are unique among siblings),         *)
(*   namespaces : the namespaces that exist, by name,                      *)
(*   skins      : the skin bindings, one per bound mesh,                   *)
(*   wraps      : the proximity wraps, one per receiver mesh,              *)
(*   selection  : the paths of the selected nodes.                         *)
(* A primitive returns an outcome: the scene after it, the exception it    *)
(* raised ("none" when it returned) and its return value.                  *)

Done(w, ret) == [w |-> w, exc |-> "none", ret |-> ret]
Fail(w, e) == [w |-> w, exc |-> e, ret |-> <<>>]

\* run F on the scene of an outcome unless the outcome is an exception
Then(o, F(_)) == With(o, LAMBDA x : IF x.exc # "none" THEN x ELSE F(x.w))

\* run F on an outcome unless the outcome is an exception
Bind(o, F(_)) == With(o, LAMBDA x : IF x.exc # "none" THEN x ELSE F(x))

\* Python's None, and a value that is not None
None == [some |-> FALSE, val |-> <<>>]
Some(v) == [some |-> TRUE, val |-> v]

Paths(w) == { n.path : n \in w.nodes }
NodeAt(w, p) == CHOOSE n \in w.nodes : n.path = p

IsPrefix(pre, p) == Len(pre) <= Len(p) /\ SubSeq(p, 1, Len(pre)) = pre
IsSuffix(suf, p) ==
    Len(suf) <= Len(p) /\ SubSeq(p, Len(p) - Len(suf) + 1, Len(p)) = suf
ParentOf(p) == SubSeq(p, 1, Len(p) - 1)

\* the nodes a name denotes: a name starting with "|" is a full path, any
\* other name is a partial path matching every node whose path ends with it,
\* and a leading "*" segment stands for whatever lies above the rest
Resolve(w, name) ==
    With(Split(name, Bar), LAMBDA segs :
        IF Head(segs) = <<>> THEN { n.path : n \in { m \in w.nodes : m.path = Tail(segs) } }
        ELSE IF Head(segs) = <<"*">>
             THEN { n.path : n \in { m \in w.nodes :
                                       Len(segs) > 1 /\ IsSuffix(Tail(segs), m.path) } }
             ELSE { n.path : n \in { m \in w.nodes : IsSuffix(segs, m.path) } })

\* run F on the path of the one node a name denotes; the host refuses a name
\* that denotes no node or more than one
OnNode(w, name, F(_)) ==
    With(Resolve(w, name), LAMBDA c :
        IF Cardinality(c) # 1 THEN Fail(w, "RuntimeError")
        ELSE With(CHOOSE p \in c : TRUE, F))

\* the name the host reports for a node: its shortest partial path that
\* denotes no other node, the full path when every shorter one is ambiguous
UniqueName(w, p) ==
    With({ k \in 1..Len(p) :
             \A n \in w.nodes :
                 IsSuffix(SubSeq(p, Len(p) - k + 1, Len(p)), n.path) => n.path = p },
         LAMBDA unique :
        IF unique = {} THEN FullPath(p)
        ELSE Join(Bar, SubSeq(p, Len(p) - (CHOOSE k \in unique :
                                              \A j \in unique : k <= j) + 1,
                              Len(p))))

Digits == <<"1", "2", "3", "4", "5", "6", "7", "8", "9">>

\* the name a node asked to be called `name` gets under `parent`: the name
\* itself, or the name with the first free number when a sibling has it
ChildName(w, parent, name) ==
    With({ n.path : n \in w.nodes }, LAMBDA P :
        IF Append(parent, name) \notin P THEN name
        ELSE Append(name, Digits[CHOOSE i \in 1..Len(Digits) :
                 /\ Append(parent, Append(name, Digits[i])) \notin P
                 /\ \A j \in 1..(i - 1) :
                       Append(parent, Append(name, Digits[j])) \in P]))

\* the namespace a node name lies in ("" for the root namespace), and every
\* namespace that must exist for the name to exist
NamespaceOf(name) ==
    With(Split(name, Colon), LAMBDA parts :
        Join(Colon, SubSeq(parts, 1, Len(parts) - 1)))

NamespacesFor(name) ==
    With(Split(name, Colon), LAMBDA parts :
        { Join(Colon, SubSeq(parts, 1, k)) : k \in 1..(Len(parts) - 1) })

NewNode(p, kind) ==
    [path |-> p, kind |-> kind, t |-> 0, r |-> 0, jo |-> 0, ro |-> 0,
     radi |-> 0, nv |-> 0, inter |-> 0]

\* an outcome whose return value is the name the host reports for node p
Named(w, p) == Done(w, UniqueName(w, p))

\* mc.createNode(kind, n=name): a new node under the world, selected
CreateNode(w, kind, name) ==
    With(ChildName(w, <<>>, name), LAMBDA nm :
        Named([w EXCEPT !.nodes = @ \cup {NewNode(<<nm>>, kind)},
                        !.namespaces = @ \cup NamespacesFor(nm),
                        !.selection = {<<nm>>}],
              <<nm>>))

\* the scene with the subtree at `old` moved to `new`
MovePath(w, old, new) ==
    LET Re(p) == IF IsPrefix(old, p)
                 THEN new \o SubSeq(p, Len(old) + 1, Len(p)) ELSE p
    IN  [w EXCEPT
           !.nodes = { [n EXCEPT !.path = Re(@)] : n \in @ },
           !.namespaces = @ \cup NamespacesFor(Last(new)),
           !.selection = { Re(p) : p \in @ },
           !.skins = { [s EXCEPT !.geom = Re(@),
                                 !.infs = [i \in DOMAIN @ |-> Re(@[i])]] : s \in @ },
           !.wraps = { [x EXCEPT !.receiver = Re(@),
                                 !.drivers = { Re(d) : d \in @ }] : x \in @ }]

\* the node at cp becomes the child of pp called `name` (or `name` with a
\* number when pp has such a child already)
Moved(w, cp, pp, name) ==
    With(Append(pp, ChildName(w, pp, name)), LAMBDA new :
        Named(MovePath(w, cp, new), new))

\* mc.parent(child, w=True) with pp = <<>>, and mc.parent(child, parent)
ParentUnder(w, childName, pp) ==
    OnNode(w, childName, LAMBDA cp : Moved(w, cp, pp, Last(cp)))

Parent(w, childName, parentName) ==
    OnNode(w, parentName, LAMBDA pp : ParentUnder(w, childName, pp))

\* mc.setAttr / mc.xform on the one node a name denotes
SetField(w, name, fld, v) ==
    OnNode(w, name, LAMBDA cp :
        Done([w EXCEPT !.nodes =
                { IF n.path = cp THEN [n EXCEPT ![fld] = v] ELSE n : n \in @ }],
             <<>>))

\* mc.rename(name, newName)
Rename(w, name, newName) ==
    OnNode(w, name, LAMBDA cp : Moved(w, cp, ParentOf(cp), newName))

\* mc.duplicate(name, rr=True): a copy beside the original, without the
\* original's binding, selected; the command returns a list of names
Duplicate(w, name) ==
    OnNode(w, name, LAMBDA cp :
        With(Append(ParentOf(cp), ChildName(w, ParentOf(cp), Last(cp))), LAMBDA new :
            Bind(Named([w EXCEPT
                          !.nodes = @ \cup
                              { [n EXCEPT !.path = new \o SubSeq(@, Len(cp) + 1, Len(@))] :
                                  n \in { m \in w.nodes : IsPrefix(cp, m.path) } },
                          !.selection = {new}],
                       new),
                 LAMBDA o : Done(o.w, <<o.ret>>))))

\* the scene without the nodes at and below the paths in `targets`
Without(w, targets) ==
    With({ n.path : n \in { m \in w.nodes : \E t \in targets : IsPrefix(t, m.path) } },
         LAMBDA dead :
        [w EXCEPT
           !.nodes = { n \in @ : n.path \notin dead },
           !.selection = @ \ dead,
           !.skins = { [s EXCEPT !.infs = SelectSeq(@, LAMBDA p : p \notin dead)] :
                         s \in { x \in @ : x.geom \notin dead } },
           !.wraps = { [x EXCEPT !.drivers = @ \ dead] :
                         x \in { y \in @ : y.receiver \notin dead } }])

\* mc.delete(names): the named nodes with everything below them; with no
\* name given the command acts on the selection
Delete(w, names) ==
    With({ Resolve(w, names[i]) : i \in DOMAIN names }, LAMBDA hit :
        IF \E h \in hit : Cardinality(h) # 1 THEN Fail(w, "RuntimeError")
        ELSE Done(Without(w, IF names = <<>> THEN w.selection ELSE UNION hit), <<>>))

\* mc.ls(): the name of every node
Ls(w) == { UniqueName(w, n.path) : n \in w.nodes }

\* mc.namespace(rm=ns): only a namespace holding no node and no namespace
NamespaceRemove(w, ns) ==
    IF \/ ns \notin w.namespaces
       \/ \E n \in w.nodes : NamespaceOf(Last(n.path)) = ns
       \/ \E m \in w.namespaces : StartsWith(m, ns \o Colon)
    THEN Fail(w, "RuntimeError")
    ELSE Done([w EXCEPT !.namespaces = @ \ {ns}], <<>>)

\* the unit of weight: a per-vertex weight x stands for x / WeightUnit
WeightUnit == 2

SkinOf(w, geom) == { s \in w.skins : s.geom = geom }

\* the weights a fresh binding starts from: every vertex on its first
\* influence
SeedWeights(nv, k) ==
    [i \in 1..(nv * k) |-> IF (i - 1) % k = 0 THEN WeightUnit ELSE 0]

\* a new binding of the mesh at gp to the joints at infs, in that order
Bound(w, gp, infs) ==
    IF \/ SkinOf(w, gp) # {}
       \/ NodeAt(w, gp).kind # "mesh"
       \/ \E i, j \in DOMAIN infs : i # j /\ infs[i] = infs[j]
    THEN Fail(w, "RuntimeError")
    ELSE Done([w EXCEPT !.skins = @ \cup
                 {[geom |-> gp, infs |-> infs,
                   weights |-> SeedWeights(NodeAt(w, gp).nv, Len(infs))]}],
              <<FullPath(gp)>>)

\* mc.skinCluster(influences + [geom], tsb=True): a new binding of the mesh
\* to the nodes the influence names denote, in the order given; the command
\* returns a list holding the binding's name
SkinCreate(w, infNames, geomName) ==
    With([i \in DOMAIN infNames |-> Resolve(w, infNames[i])], LAMBDA hit :
        IF infNames = <<>> \/ \E i \in DOMAIN hit : Cardinality(hit[i]) # 1
        THEN Fail(w, "RuntimeError")
        ELSE OnNode(w, geomName, LAMBDA gp :
                 Bound(w, gp, [i \in DOMAIN hit |-> CHOOSE p \in hit[i] : TRUE])))

\* mc.skinCluster(skin, e=True, ub=True)
Unbind(w, skin) ==
    OnNode(w, skin, LAMBDA gp :
        IF SkinOf(w, gp) = {} THEN Fail(w, "RuntimeError")
        ELSE Done([w EXCEPT !.skins = { s \in @ : s.geom # gp }], <<>>))

\* the sum of a sequence of numbers
RECURSIVE SumSeq(_)
SumSeq(s) == IF s = <<>> THEN 0 ELSE Head(s) + SumSeq(Tail(s))

\* the weights of binding s after a write of `weights` for the influences
\* `indices`: a listed influence takes the weight written for it and one left
\* out keeps its weight; with normalize every vertex's weights are then
\* scaled to add up to the unit
Written(s, nv, indices, weights, normalize) ==
    LET K == Len(s.infs)
        k == Len(indices)
        Listed(c) == { j \in 1..k : indices[j] = c }
        Raw(v, c) == IF Listed(c) # {}
                     THEN weights[(v - 1) * k + (CHOOSE j \in Listed(c) : TRUE)]
                     ELSE s.weights[(v - 1) * K + c + 1]
        RowSum(v) == SumSeq([c \in 1..K |-> Raw(v, c - 1)])
    IN  [i \in 1..(nv * K) |->
            IF normalize /\ RowSum(((i - 1) \div K) + 1) > 0
            THEN (Raw(((i - 1) \div K) + 1, (i - 1) % K) * WeightUnit)
                     \div RowSum(((i - 1) \div K) + 1)
            ELSE Raw(((i - 1) \div K) + 1, (i - 1) % K)]

\* MFnSkinCluster.setWeights(geom, all vertices, inf_indices, weights,
\* normalize) on the binding named skin
SetWeights(w, skin, indices, weights, normalize) ==
    OnNode(w, skin, LAMBDA gp :
        IF SkinOf(w, gp) = {} THEN Fail(w, "RuntimeError")
        ELSE With(CHOOSE x \in SkinOf(w, gp) : TRUE, LAMBDA s :
                 IF \/ Len(weights) # NodeAt(w, gp).nv * Len(indices)
                    \/ \E j \in DOMAIN indices : indices[j] >= Len(s.infs)
                 THEN Fail(w, "RuntimeError")
                 ELSE Done([w EXCEPT !.skins = (@ \ {s}) \cup
                              {[s EXCEPT !.weights =
                                  Written(s, NodeAt(w, gp).nv, indices, weights, normalize)]}],
                           <<>>)))

----------------------------------------------------------------------------
(* The module's functions *)

NAMESPACE == <<"p", "r", "o", "x", "i", "m", "i", "t", "y", "_", "b", "a", "k", "e">>

\* get_joint_data(joint_path)
get_joint_data(w, joint_path) ==
    With(Split(joint_path, Bar), LAMBDA segs :
        With(NodeAt(w, Tail(segs)), LAMBDA n :
            [name |-> Last(segs),
             world_position |-> n.t, rotate |-> n.r, joint_orient |-> n.jo,
             rotate_order |-> n.ro, radius |-> n.radi, parent_path |-> None]))

\* mc.listRelatives(root, ad=True, type="joint", f=True): the full paths of
\* the joints below the root, None when there is none
ListJointsBelow(w, rp) ==
    With({ FullPath(n.path) : n \in { m \in w.nodes :
              /\ IsPrefix(rp, m.path) /\ m.path # rp /\ m.kind = "joint" } },
         LAMBDA below : IF below = {} THEN None ELSE Some(below))

\* the record get_skeleton_data's loop makes of one descendant
joint_record(w, joint_path, current_path) ==
    With(Split(current_path, Bar), LAMBDA segs :
        [get_joint_data(w, joint_path) EXCEPT
            !.parent_path = Some(Join(Bar, SubSeq(segs, 1, Len(segs) - 1)))])

\* the loop of get_skeleton_data over the sorted descendants
RECURSIVE skeleton_loop(_, _, _, _)
skeleton_loop(w, root, child_joints, data) ==
    IF child_joints = <<>> THEN Ok(data)
    ELSE With(build_path_from_root(Head(child_joints), root), LAMBDA current_path :
             IF ~current_path.ok THEN Raise(current_path.exc)
             ELSE With(Append(data, joint_record(w, Head(child_joints), current_path.val)),
                       LAMBDA more :
                      With(Tail(child_joints), LAMBDA rest :
                          skeleton_loop(w, root, rest, more))))

\* get_skeleton_data(root_joint_path): mc.ls(root_joint_path, l=True)[0] is
\* the root's full path, and sorted() raises TypeError on None
get_skeleton_data(w, root_joint_path) ==
    With(Resolve(w, root_joint_path), LAMBDA found :
        IF found = {} THEN Raise("IndexError")
        ELSE With(CHOOSE p \in found : \A q \in found : ~StrLess(FullPath(q), FullPath(p)),
                  LAMBDA rp :
                 With(ListJointsBelow(w, rp), LAMBDA below :
                     IF ~below.some THEN Raise("TypeError")
                     ELSE With(Sorted(below.val), LAMBDA child_joints :
                              skeleton_loop(w, FullPath(rp), child_joints,
                                            <<get_joint_data(w, FullPath(rp))>>)))))

\* the body of build_skeleton's loop for one joint; joint_name is what
\* mc.createNode returned, whatever mc.parent does to the node afterwards
build_joint(w, joint, namespace) ==
    Bind(CreateNode(w, "joint", namespace \o Colon \o joint.name), LAMBDA made :
    Then(SetField(made.w, made.ret, "t", joint.world_position), LAMBDA w1 :
    Then(IF joint.parent_path.some
         THEN Parent(w1, made.ret,
                     add_namespace_to_full_path(namespace, joint.parent_path.val))
         ELSE Done(w1, <<>>), LAMBDA w2 :
    Then(SetField(w2, made.ret, "r", joint.rotate), LAMBDA w3 :
    Then(SetField(w3, made.ret, "jo", joint.joint_orient), LAMBDA w4 :
    Then(SetField(w4, made.ret, "ro", joint.rotate_order), LAMBDA w5 :
         SetField(w5, made.ret, "radi", joint.radius)))))))

\* build_skeleton(data, namespace)
RECURSIVE build_skeleton(_, _, _)
build_skeleton(w, data, namespace) ==
    IF data = <<>> THEN Done(w, <<>>)
    ELSE Then(build_joint(w, Head(data), namespace), LAMBDA x :
             With(Tail(data), LAMBDA rest : build_skeleton(x, rest, namespace)))

\* get_related_skin_node(geom): the binding found in the mesh's history; the
\* function falls off its loop (None) when the history holds none
get_related_skin_node(w, geom) ==
    OnNode(w, geom, LAMBDA gp :
        Done(w, IF SkinOf(w, gp) = {} THEN None ELSE Some(FullPath(gp))))

\* get_skin_data(skin_node, geom)
get_skin_data(w, skin_node, geom) ==
    IF ~skin_node.some THEN Raise("TypeError")
    ELSE With({ x \in w.skins : x.geom \in Resolve(w, skin_node.val) }, LAMBDA found :
             IF Cardinality(found) # 1 \/ Cardinality(Resolve(w, geom)) # 1
             THEN Raise("RuntimeError")
             ELSE With(CHOOSE x \in found : TRUE, LAMBDA s :
                      Ok([influence_objects |->
                              [i \in DOMAIN s.infs |-> FullPath(s.infs[i])],
                          weilghts |-> s.weights])))

\* a set_skin that lets the host normalise what it writes
set_skin_normalized(w, skin_data, skin_node) ==
    SetWeights(w, skin_node,
               [i \in 1..Len(skin_data.influence_objects) |-> i - 1],
               skin_data.weilghts, TRUE)

\* set_skin(skin_data, skin_node)
set_skin(w, skin_data, skin_node) ==
    SetWeights(w, skin_node,
               [i \in 1..Len(skin_data.influence_objects) |-> i - 1],
               skin_data.weilghts, FALSE)

\* the loop of rebind_skin over the influence paths
RECURSIVE rebind_paths(_, _, _, _)
rebind_paths(todo, namespace, root_joint_path, influence_objects) ==
    IF todo = <<>> THEN Ok(influence_objects)
    ELSE With(build_path_from_root(Head(todo), root_joint_path), LAMBDA current_path :
             IF ~current_path.ok THEN Raise(current_path.exc)
             ELSE With(Append(influence_objects,
                              add_namespace_to_full_path(namespace, current_path.val)),
                       LAMBDA more :
                      With(Tail(todo), LAMBDA rest :
                          rebind_paths(rest, namespace, root_joint_path, more))))

\* rebind_skin(skin_data, geom, namespace, root_joint_path)
rebind_skin(w, skin_data, geom, namespace, root_joint_path) ==
    With(rebind_paths(skin_data.influence_objects, namespace, root_joint_path, <<>>),
         LAMBDA influence_objects :
        IF ~influence_objects.ok THEN Fail(w, influence_objects.exc)
        ELSE Bind(SkinCreate(w, influence_objects.val, geom), LAMBDA made :
                 set_skin(made.w, skin_data, made.ret[1])))

\* dup_and_clean_geom, lines 307-308
unparent(w, dupped_geom) ==
    OnNode(w, dupped_geom, LAMBDA g :
        IF ParentOf(g) # <<>> THEN ParentUnder(w, dupped_geom, <<>>)
        ELSE Done(w, <<>>))

\* dup_and_clean_geom, lines 310-318: the intermediate shapes are deleted
clean_shapes(w, dupped_geom) ==
    OnNode(w, dupped_geom, LAMBDA g :
        Done([w EXCEPT !.nodes =
                { IF n.path = g THEN [n EXCEPT !.inter = 0] ELSE n : n \in @ }],
             dupped_geom))

\* dup_and_clean_geom(geom_path, namespace)
dup_and_clean_geom(w, geom_path, namespace) ==
    Bind(Duplicate(w, geom_path), LAMBDA dupped :
    Bind(Rename(dupped.w, dupped.ret[1],
                namespace \o Colon \o Last(Split(geom_path, Bar))), LAMBDA renamed :
    Then(unparent(renamed.w, renamed.ret), LAMBDA x :
         clean_shapes(x, renamed.ret))))

\* the elements of a set in some order
RECURSIVE SeqOf(_)
SeqOf(S) ==
    IF S = {} THEN <<>>
    ELSE With(CHOOSE y \in S : TRUE, LAMBDA x : <<x>> \o SeqOf(S \ {x}))

\* sorted(S, key=len, reverse=True)
RECURSIVE ByLenDesc(_)
ByLenDesc(S) ==
    IF S = {} THEN <<>>
    ELSE With(CHOOSE y \in S : \A z \in S : Len(z) <= Len(y),
              LAMBDA x : <<x>> \o ByLenDesc(S \ {x}))

\* the nodes cleanup deletes: those mc.ls() reports under the prefix
cleanup_nodes(all_nodes) ==
    SeqOf({ node \in all_nodes : StartsWith(node, NAMESPACE \o Colon) })

\* a choice of namespaces that takes the reserved namespace itself as well
cleanup_namespaces_whole(all_namespaces) ==
    ByLenDesc({ n \in all_namespaces :
                  n = NAMESPACE \/ StartsWith(n, NAMESPACE \o Colon) })

\* the namespaces cleanup removes
cleanup_namespaces(all_namespaces) ==
    ByLenDesc({ n \in all_namespaces : StartsWith(n, NAMESPACE \o Colon) })

RECURSIVE remove_namespaces(_, _)
remove_namespaces(w, todo) ==
    IF todo = <<>> THEN Done(w, <<>>)
    ELSE Then(NamespaceRemove(w, Head(todo)), LAMBDA x :
             With(Tail(todo), LAMBDA rest : remove_namespaces(x, rest)))

\* cleanup()
cleanup(w) ==
    With(cleanup_nodes(Ls(w)), LAMBDA deleted_nodes :
        Then(Delete(w, deleted_nodes), LAMBDA x :
            With(cleanup_namespaces(x.namespaces), LAMBDA todo :
                remove_namespaces(x, todo))))

----------------------------------------------------------------------------
(* The host's wrap and bake primitives *)

\* mc.select(name, r=True)
Select(w, name) ==
    OnNode(w, name, LAMBDA g : Done([w EXCEPT !.selection = {g}], <<>>))

\* mc.proximityWrap() on the selected mesh, then
\* mc.proximityWrap(wrap, edit=True, addDrivers=[driver])
ProximityWrap(w, driver) ==
    OnNode(w, driver, LAMBDA d :
        IF Cardinality(w.selection) # 1 THEN Fail(w, "RuntimeError")
        ELSE Done([w EXCEPT !.wraps = @ \cup
                     {[receiver |-> CHOOSE p \in w.selection : TRUE, drivers |-> {d}]}],
                  <<>>))

\* the joints at and below a path, in path order
JointsUnder(w, rp) ==
    With({ n.path : n \in { m \in w.nodes : IsPrefix(rp, m.path) /\ m.kind = "joint" } },
         LAMBDA js :
        With(Sorted({ FullPath(p) : p \in js }), LAMBDA names :
            [i \in DOMAIN names |-> Tail(Split(names[i], Bar))]))

\* the weights the bake gives nv vertices over K influences: vertex v wholly
\* on one influence, the pick-th for the first vertex and the next for each
\* vertex after it
BakedWeights(nv, K, pick) ==
    [i \in 1..(nv * K) |->
        IF (i - 1) % K = (pick - 1 + ((i - 1) \div K)) % K THEN WeightUnit ELSE 0]

\* mc.bakeDeformer(sm, ss, dm, ds, mi): binds the mesh dm to the joints of
\* the skeleton ds, with weights of the host's making; it fails when a name
\* does not denote one node, when dm is bound already, or when the host
\* cannot bake (hostOk)
BakeDeformer(w, sm, ss, dm, ds, mi, hostOk, pick) ==
    IF ~hostOk \/ mi < 1 THEN Fail(w, "RuntimeError")
    ELSE OnNode(w, sm, LAMBDA a :
         OnNode(w, ss, LAMBDA b :
         OnNode(w, dm, LAMBDA gp :
         OnNode(w, ds, LAMBDA d :
             With(JointsUnder(w, d), LAMBDA infs :
                 IF SkinOf(w, gp) # {} \/ infs = <<>> THEN Fail(w, "RuntimeError")
                 ELSE Done([w EXCEPT !.skins = @ \cup
                              {[geom |-> gp, infs |-> infs,
                                weights |-> BakedWeights(NodeAt(w, gp).nv,
                                                         Len(infs), pick)]}],
                           <<>>))))))

----------------------------------------------------------------------------
(* The handlers of SkinBaker.  f holds the three text fields.  A handler   *)
(* is followed step by step through a record of what it has done so far:   *)
(* the scene, the step that raised (if any) and the values it holds.       *)

NoSkeleton == <<>>
NoSkin == [influence_objects |-> <<>>, weilghts |-> <<>>]

\* the record after a step with outcome o
Step(c, o, name) ==
    With(o, LAMBDA x :
        [c EXCEPT !.w = x.w, !.exc = x.exc,
                  !.step = IF x.exc = "none" THEN "" ELSE name])

\* the record after a step that raised exc without touching the scene
Stop(c, name, exc) == [c EXCEPT !.exc = exc, !.step = name]

BuildStart(w) ==
    [w |-> w, step |-> "", exc |-> "none", skeleton |-> NoSkeleton,
     skin_data |-> NoSkin, dupped_source |-> <<>>, dupped_target |-> <<>>]

\* _build, line 403
build_skin_data(w, f, source_skin_node, skeleton) ==
    With(get_skin_data(w, source_skin_node, f.source), LAMBDA skin_data :
        IF ~skin_data.ok
        THEN Stop([BuildStart(w) EXCEPT !.skeleton = skeleton],
                  "get_skin_data", skin_data.exc)
        ELSE [BuildStart(w) EXCEPT !.skeleton = skeleton,
                                   !.skin_data = skin_data.val])

\* _build, lines 401-403: the three extractions
build_extract(w, f) ==
    With(get_related_skin_node(w, f.source), LAMBDA source_skin_node :
        IF source_skin_node.exc # "none"
        THEN Stop(BuildStart(w), "get_related_skin_node", source_skin_node.exc)
        ELSE With(get_skeleton_data(w, f.root), LAMBDA skeleton :
                 IF ~skeleton.ok
                 THEN Stop(BuildStart(w), "get_skeleton_data", skeleton.exc)
                 ELSE build_skin_data(w, f, source_skin_node.ret, skeleton.val)))

\* _build, line 405
build_replicate(c) ==
    Step(c, build_skeleton(c.w, c.skeleton, NAMESPACE), "build_skeleton")

\* _build, line 406
build_dup_source(c, f) ==
    With(dup_and_clean_geom(c.w, f.source, NAMESPACE), LAMBDA o :
        [Step(c, o, "dup_and_clean_geom(source_geom)") EXCEPT !.dupped_source = o.ret])

\* _build, line 407
build_rebind(c, f) ==
    Step(c, rebind_skin(c.w, c.skin_data, c.dupped_source, NAMESPACE, f.root),
         "rebind_skin")

\* _build, line 409
build_dup_target(c, f) ==
    With(dup_and_clean_geom(c.w, f.target, NAMESPACE), LAMBDA o :
        [Step(c, o, "dup_and_clean_geom(target_geom)") EXCEPT !.dupped_target = o.ret])

\* _build, lines 411-413
build_wrap(c) ==
    Step(c, Then(Select(c.w, c.dupped_target),
                 LAMBDA x : ProximityWrap(x, c.dupped_source)),
         "proximityWrap")

\* SkinBaker._build: the scene after it, the step that raised (if any), and
\* the skeleton and skin data it extracted
SkinBaker_build(w, f) ==
    Bind(build_extract(w, f), LAMBDA c0 :
    Bind(build_replicate(c0), LAMBDA c1 :
    Bind(build_dup_source(c1, f), LAMBDA c2 :
    Bind(build_rebind(c2, f), LAMBDA c3 :
    Bind(build_dup_target(c3, f), LAMBDA c4 :
         build_wrap(c4))))))

\* a segment without any of its namespace prefixes
strip_every_namespace(p) == Last(Split(p, Colon))

\* _bake, line 449: one segment of a raw influence path without what stands
\* before its first ":"
strip_namespace(p) == Join(Colon, Tail(Split(p, Colon)))

\* _bake, lines 449-450: the pattern asked for in place of one raw influence
remap_influence(inf) ==
    With(SelectSeq(Split(inf, Bar), LAMBDA p : p # <<>>), LAMBDA segs :
        <<"*", "|">> \o Join(Bar, [i \in DOMAIN segs |-> strip_namespace(segs[i])]))

NoCall == [made |-> FALSE, sm |-> <<>>, ss |-> <<>>, dm |-> <<>>, ds |-> <<>>,
           mi |-> 0, bound |-> FALSE]
NoRequest == [made |-> FALSE, raw |-> <<>>, influence_objects |-> <<>>,
              geom |-> <<>>, raw_weights |-> <<>>, weilghts |-> <<>>]

BakeStart(w) ==
    [w |-> w, step |-> "", exc |-> "none", call |-> NoCall, request |-> NoRequest,
     cleaned |-> FALSE, skin_node |-> None, skin_data |-> NoSkin]

\* _bake, lines 430 and 442
bake_skin_node(c, f) ==
    With(get_related_skin_node(c.w, f.target), LAMBDA o :
        [Step(c, o, "get_related_skin_node") EXCEPT
            !.skin_node = IF o.exc = "none" THEN o.ret ELSE None])

\* _bake, lines 430-432: any binding of the target is unbound
bake_unbind(c, f) ==
    Bind(bake_skin_node(c, f), LAMBDA d :
        IF d.skin_node.some THEN Step(d, Unbind(d.w, d.skin_node.val), "unbind")
        ELSE d)

\* arguments that name the shadow of the source mesh and the real root
BakeCall_source(w, f, influence_number) ==
    [made |-> TRUE,
     sm |-> NAMESPACE \o Colon \o Last(Split(f.source, Bar)),
     ss |-> NAMESPACE \o Colon \o Last(Split(f.root, Bar)),
     dm |-> f.target,
     ds |-> f.root,
     mi |-> influence_number,
     bound |-> \E s \in w.skins : s.geom \in Resolve(w, f.target)]

\* _bake, lines 425-428: the arguments of the bake primitive
BakeCall(w, f, influence_number) ==
    [made |-> TRUE,
     sm |-> NAMESPACE \o Colon \o Last(Split(f.target, Bar)),
     ss |-> NAMESPACE \o Colon \o Last(Split(f.root, Bar)),
     dm |-> f.target,
     ds |-> NAMESPACE \o Colon \o Last(Split(f.root, Bar)),
     mi |-> influence_number,
     bound |-> \E s \in w.skins : s.geom \in Resolve(w, f.target)]

\* _bake, lines 434-440: the call of the bake primitive
bake_deformer(c, f, influence_number, hostOk, pick) ==
    With(BakeCall(c.w, f, influence_number), LAMBDA call :
        [Step(c, BakeDeformer(c.w, call.sm, call.ss, call.dm, call.ds, call.mi,
                              hostOk, pick), "bakeDeformer")
            EXCEPT !.call = call])

\* _bake, line 443
bake_skin_data(c, f) ==
    With(get_skin_data(c.w, c.skin_node, f.target), LAMBDA d :
        IF d.ok THEN [c EXCEPT !.skin_data = d.val]
        ELSE Stop(c, "get_skin_data", d.exc))

\* _bake, lines 442-445: the raw binding is extracted and unbound
bake_extract(c, f) ==
    Bind(bake_skin_node(c, f), LAMBDA d :
    Bind(bake_skin_data(d, f), LAMBDA e :
         Step(e, Unbind(e.w, e.skin_node.val), "unbind")))

\* _bake, lines 447-452: the influence paths become patterns
bake_remap(c, f) ==
    [c EXCEPT
       !.skin_data.influence_objects =
           [i \in DOMAIN @ |-> remap_influence(@[i])],
       !.request.raw = c.skin_data.influence_objects,
       !.request.raw_weights = c.skin_data.weilghts]

\* what lines 454-455 ask of mc.skinCluster and set_skin
Requested(c, f) ==
    [c EXCEPT !.request.made = TRUE,
              !.request.influence_objects = c.skin_data.influence_objects,
              !.request.geom = f.target,
              !.request.weilghts = c.skin_data.weilghts]

\* _bake, lines 454-455: the new binding and its weights
bake_rebind(c, f) ==
    With(SkinCreate(c.w, c.skin_data.influence_objects, f.target), LAMBDA made :
        IF made.exc # "none" THEN Step(Requested(c, f), made, "skinCluster")
        ELSE Step(Requested(c, f), set_skin(made.w, c.skin_data, made.ret[1]),
                  "set_skin"))

\* _bake, line 457
bake_cleanup(c) ==
    [Step(c, cleanup(c.w), "cleanup") EXCEPT !.cleaned = TRUE]

\* SkinBaker._bake with influence_number read from the int field, on a host
\* whose bake primitive succeeds (hostOk) with the weights pick stands for
SkinBaker_bake(w, f, influence_number, hostOk, pick) ==
    Bind(bake_unbind(BakeStart(w), f), LAMBDA c0 :
    Bind(bake_deformer(c0, f, influence_number, hostOk, pick), LAMBDA c1 :
    Bind(bake_extract(c1, f), LAMBDA c2 :
    Bind(bake_remap(c2, f), LAMBDA c3 :
    Bind(bake_rebind(c3, f), LAMBDA c4 :
         bake_cleanup(c4))))))

----------------------------------------------------------------------------
(* The scenes the tool starts from: a skeleton of joints (under the world  *)
(* or under a group), a source mesh bound to joints of it, a target mesh,  *)
(* and the fields of the panel filled with their full paths.               *)

MaxRootDepth == 2     \* SpecPath: segments of the root path
MaxBelow == 2         \* SpecPath: segments of the joint path below the root
MaxDesc == 3          \* joints below the root
MaxInfluences == 2    \* influences of the source binding
SourceVertices == 2   \* vertices of the source mesh
TargetVertices == 1   \* vertices of the target mesh
MaxInfluenceNumber == 2   \* the values of the panel's influence field
MaxPick == 2          \* the influences the bake may put the first vertex on
MaxBuilds == 2        \* how many times _build is run

SegSeqs(n) == UNION { [1..k -> Names] : k \in 1..n }

Group == <<"g">>
SourceMesh == <<"s">>
TargetMesh == <<"t">>

\* the sets of at most n paths below a root that hold every path's parent
RECURSIVE DescSets(_)
DescSets(n) ==
    IF n = 0 THEN {{}}
    ELSE With(DescSets(n - 1), LAMBDA smaller :
             smaller \cup
             { pr[1] \cup {pr[2]} : pr \in
                 { q \in smaller \X
                       { Append(p, nm) : p \in UNION smaller \cup {<<>>}, nm \in BelowNames } :
                     /\ q[2] \notin q[1]
                     /\ Len(q[2]) = 1 \/ ParentOf(q[2]) \in q[1] } })

\* the k-th joint of the skeleton, with attribute values of its own
JointNode(p, k) ==
    [path |-> p, kind |-> "joint", t |-> k, r |-> k + 1, jo |-> k + 2,
     ro |-> k % 6, radi |-> k + 3, nv |-> 0, inter |-> 0]

Rank(p, J) == Cardinality({ q \in J : StrLess(FullPath(q), FullPath(p)) }) + 1

MeshNode(p, nv, inter) == [NewNode(p, "mesh") EXCEPT !.nv = nv, !.inter = inter]

\* the weights of the source binding over k influences: vertex v on
\* influence v (mod k); with blend = 1 the first vertex is shared between the
\* first two influences, with blend = 2 it carries half a unit only (a
\* binding that is not normalised)
SourceWeights(k, blend) ==
    [i \in 1..(SourceVertices * k) |->
        IF i <= k /\ blend = 1 /\ k > 1
        THEN (IF i = 1 THEN WeightUnit - (WeightUnit \div 2)
              ELSE IF i = 2 THEN WeightUnit \div 2 ELSE 0)
        ELSE IF i <= k /\ blend = 2
        THEN (IF i = 1 THEN WeightUnit \div 2 ELSE 0)
        ELSE IF (i - 1) % k = ((i - 1) \div k) % k THEN WeightUnit ELSE 0]

\* the source binding: k influences taken from the joints J in path order
\* from the start-th on (backwards with rev)
SourceSkin(J, start, k, rev, blend) ==
    With(Sorted({ FullPath(p) : p \in J }), LAMBDA names :
        [geom |-> <<SourceMesh>>,
         infs |-> [i \in 1..k |->
                     Tail(Split(names[((start - 1 + (IF rev THEN k - i ELSE i - 1))
                                         % Len(names)) + 1], Bar))],
         weights |-> SourceWeights(k, blend)])

Min(a, b) == IF a < b THEN a ELSE b

RootPath(grp, rn) == IF grp THEN <<Group, rn>> ELSE <<rn>>
TargetPath(grp) == IF grp THEN <<Group, TargetMesh>> ELSE <<TargetMesh>>
Joints(grp, rn, descs) ==
    {RootPath(grp, rn)} \cup { RootPath(grp, rn) \o d : d \in descs }

InitScene(grp, rn, descs, start, k, rev, blend, sel, inf) ==
    /\ nodes = { JointNode(p, Rank(p, Joints(grp, rn, descs))) :
                   p \in Joints(grp, rn, descs) }
                 \cup (IF grp THEN {NewNode(<<Group>>, "transform")} ELSE {})
                 \cup {MeshNode(<<SourceMesh>>, SourceVertices, 1),
                       MeshNode(TargetPath(grp), TargetVertices, 0)}
    /\ namespaces = NamespacesFor(rn)
    /\ skins = {SourceSkin(Joints(grp, rn, descs), start, k, rev, blend)}
    /\ wraps = {}
    /\ selection = IF sel THEN {TargetPath(grp)} ELSE {}
    /\ ui = [source |-> FullPath(<<SourceMesh>>),
             root |-> FullPath(RootPath(grp, rn)),
             target |-> FullPath(TargetPath(grp)),
             influence |-> inf]

Scene == [nodes |-> nodes, namespaces |-> namespaces, skins |-> skins,
          wraps |-> wraps, selection |-> selection]

\* the scene and the last operation, as a later step finds them
Snapshot == [scene |-> Scene, op |-> lastOp]

InitIdle ==
    /\ extracted_skeleton = NoSkeleton
    /\ extracted_skin = NoSkin
    /\ bake_call = NoCall
    /\ skin_request = NoRequest
    /\ cleanup_called = FALSE
    /\ lastOp = "init"
    /\ err = [step |-> "", exc |-> "none"]
    /\ builds = 0
    /\ before = Snapshot

NoPath ==
    /\ path = <<>>
    /\ root_path = <<>>
    /\ result = [ok |-> FALSE, val |-> <<>>, exc |-> "none"]

\* every joint of the skeleton bound (up to MaxInfluences), in path order;
\* the last picked object (the target) still selected, or nothing selected;
\* the influence field holds a value of 1..MaxInfluenceNumber that changes
\* from one skeleton to the next
Init ==
    /\ \E grp \in BOOLEAN, rn \in Names, descs \in DescSets(MaxDesc), sel \in BOOLEAN :
          InitScene(grp, rn, descs, 1, Min(Cardinality(descs) + 1, MaxInfluences),
                    FALSE, 0, sel, (Cardinality(descs) % MaxInfluenceNumber) + 1)
    /\ InitIdle
    /\ NoPath

\* any source binding
InitBuild ==
    /\ \E grp \in BOOLEAN, rn \in Names, descs \in DescSets(MaxDesc) :
          \E start \in 1..(Cardinality(descs) + 1),
             k \in 1..Min(Cardinality(descs) + 1, MaxInfluences),
             rev \in BOOLEAN, blend \in 0..2 :
             InitScene(grp, rn, descs, start, k, rev, blend, FALSE, 1)
    /\ InitIdle
    /\ NoPath

SetScene(w) ==
    /\ nodes' = w.nodes
    /\ namespaces' = w.namespaces
    /\ skins' = w.skins
    /\ wraps' = w.wraps
    /\ selection' = w.selection

\* the Build button
Build ==
    /\ builds < MaxBuilds
    /\ \E o \in {SkinBaker_build(Scene, ui)} :
          /\ SetScene(o.w)
          /\ extracted_skeleton' = o.skeleton
          /\ extracted_skin' = o.skin_data
          /\ err' = [step |-> o.step, exc |-> o.exc]
    /\ lastOp' = "build"
    /\ cleanup_called' = FALSE
    /\ builds' = builds + 1
    /\ before' = Snapshot
    /\ UNCHANGED <<ui, bake_call, skin_request, pathVars>>

\* the Bake button, on a host that can or cannot bake
Bake ==
    /\ \E hostOk \in BOOLEAN, pick \in 1..MaxPick :
          \E o \in {SkinBaker_bake(Scene, ui, ui.influence, hostOk, pick)} :
              /\ SetScene(o.w)
              /\ bake_call' = o.call
              /\ skin_request' = o.request
              /\ cleanup_called' = o.cleaned
              /\ err' = [step |-> o.step, exc |-> o.exc]
    /\ lastOp' = "bake"
    /\ before' = Snapshot
    /\ UNCHANGED <<ui, extracted_skeleton, extracted_skin, builds, pathVars>>

\* a call of cleanup() on its own
Cleanup ==
    /\ \E o \in {cleanup(Scene)} :
          /\ SetScene(o.w)
          /\ err' = [step |-> IF o.exc = "none" THEN "" ELSE "cleanup", exc |-> o.exc]
    /\ lastOp' = "cleanup"
    /\ cleanup_called' = TRUE
    /\ before' = Snapshot
    /\ UNCHANGED <<ui, extracted_skeleton, extracted_skin, bake_call, skin_request,
                   builds, pathVars>>

Next == Build \/ Bake \/ Cleanup

Spec == Init /\ [][Next]_vars

\* the first run of the Build button
FirstBuild == builds = 0 /\ Build

NextBuild == FirstBuild

SpecBuild == InitBuild /\ [][NextBuild]_vars

----------------------------------------------------------------------------
(* SpecPath: build_path_from_root applied to a root and a joint below it *)

InitPath ==
    /\ \E r \in SegSeqs(MaxRootDepth), below \in SegSeqs(MaxBelow) :
          /\ root_path = FullPath(r)
          /\ path = FullPath(r \o below)
    /\ result = [ok |-> FALSE, val |-> <<>>, exc |-> "pending"]
    /\ nodes = {}
    /\ namespaces = {}
    /\ skins = {}
    /\ wraps = {}
    /\ selection = {}
    /\ ui = [source |-> <<>>, root |-> <<>>, target |-> <<>>, influence |-> 1]
    /\ InitIdle

CallBuildPath ==
    /\ result.exc = "pending"
    /\ result' = build_path_from_root(path, root_path)
    /\ UNCHANGED <<path, root_path, sceneVars, toolVars>>

NextPath == CallBuildPath

SpecPath == InitPath /\ [][NextPath]_vars

----------------------------------------------------------------------------
(* What the properties speak of *)

\* the segments of the root joint's path, and the source joints: the joints
\* at and below the root in the scene the last handler started from
RootSegs == Tail(Split(ui.root, Bar))
SourceJoints ==
    { n \in before.scene.nodes : n.kind = "joint" /\ IsPrefix(RootSegs, n.path) }

\* where the replica of the joint at p belongs: the path from the root's own
\* name down, every segment under the namespace
ReplicaPath(p) ==
    [i \in 1..(Len(p) - Len(RootSegs) + 1) |->
        NAMESPACE \o Colon \o p[Len(RootSegs) - 1 + i]]

\* the joints the last handler created
NewJoints ==
    { n \in nodes : n.kind = "joint" /\ n.path \notin Paths(before.scene) }

\* every source joint has its replica, and there is no other new joint
Replicated ==
    NewJoints = { [n EXCEPT !.path = ReplicaPath(@)] : n \in SourceJoints }

\* the last handler was _build and it got as far as the named call
BuildReached(steps_before) ==
    lastOp = "build" /\ err.step \notin steps_before

\* the relative path of an extracted joint
RelativePath(joint) ==
    IF joint.parent_path.some THEN joint.parent_path.val \o Bar \o joint.name
    ELSE Bar \o joint.name

\* a name is under the reserved prefix
Reserved(name) == StartsWith(name, NAMESPACE \o Colon)

\* cleanup() was called by the last handler, or on its own, and returned
CleanupReturned ==
    lastOp \in {"cleanup", "bake"} /\ cleanup_called /\ err.exc = "none"

----------------------------------------------------------------------------
(* Properties *)

\* C1: for every root path R and every joint path P strictly below R,
\* build_path_from_root(P, R) returns normally and the result is
\* "|" + (last segment of R) + (the part of P after R).
C1_RelativePath ==
    result.exc # "pending" =>
        /\ result.ok
        /\ result.val = Bar \o Last(Split(root_path, Bar))
                            \o SubSeq(path, Len(root_path) + 1, Len(path))

\* C2: whenever get_skeleton_data is called on a root path that denotes one
\* node, it returns a sequence whose first element is the root with
\* parent_path None, and every later element's parent_path is the relative
\* path of a joint earlier in the sequence.
C2_RootFirstParentsEarlier ==
    BuildReached({"get_related_skin_node"}) =>
        /\ err.step # "get_skeleton_data"
        /\ extracted_skeleton # <<>>
        /\ extracted_skeleton[1].parent_path = None
        /\ extracted_skeleton[1].name = Last(RootSegs)
        /\ \A i \in 2..Len(extracted_skeleton) :
              /\ extracted_skeleton[i].parent_path.some
              /\ \E j \in 1..(i - 1) :
                    RelativePath(extracted_skeleton[j])
                        = extracted_skeleton[i].parent_path.val

\* C3: whenever build_skeleton is run on the extracted skeleton of N joints,
\* it completes, and the new joints are exactly the N replicas: each named
\* NAMESPACE:<short name>, under the replica of its source parent, with its
\* source joint's position, rotate, joint_orient, rotate_order and radius.
C3_ReplicaOfEveryJoint ==
    BuildReached({"get_related_skin_node", "get_skeleton_data", "get_skin_data"}) =>
        /\ err.step # "build_skeleton"
        /\ Replicated

\* the binding rebind_skin is to make on the shadow of the source mesh
ShadowSkin ==
    { s \in skins : s.geom = <<NAMESPACE \o Colon \o SourceMesh>> }

\* C4: once the skeleton is replicated under the namespace, rebind_skin on
\* the extracted binding of K influences makes a binding of the shadow mesh
\* whose i-th influence is the replica of the i-th extracted influence and
\* whose weights, extracted again, are the extracted weights unchanged.
C4_RebindRoundTrip ==
    ( /\ BuildReached({"get_related_skin_node", "get_skeleton_data", "get_skin_data",
                       "build_skeleton", "dup_and_clean_geom(source_geom)"})
      /\ Replicated ) =>
        /\ err.step # "rebind_skin"
        /\ \E s \in ShadowSkin :
              /\ Len(s.infs) = Len(extracted_skin.influence_objects)
              /\ \A i \in DOMAIN s.infs :
                    s.infs[i] = ReplicaPath(Tail(Split(
                                    extracted_skin.influence_objects[i], Bar)))
              /\ get_skin_data(Scene, Some(FullPath(s.geom)), FullPath(s.geom)).val.weilghts
                     = extracted_skin.weilghts

\* a build whose rebind ran on a binding of two influences that is not
\* normalised
C4_Witness ==
    /\ BuildReached({"get_related_skin_node", "get_skeleton_data", "get_skin_data",
                     "build_skeleton", "dup_and_clean_geom(source_geom)"})
    /\ Replicated
    /\ err.exc = "none"
    /\ Len(extracted_skin.influence_objects) = 2
    /\ extracted_skin.weilghts[1] + extracted_skin.weilghts[2] # WeightUnit
    /\ ShadowSkin # {}

\* C5: after cleanup() returns, no node has a name under the reserved prefix
\* and no namespace nested under the reserved namespace remains.
C5_ScopeEmptyAfterCleanup ==
    CleanupReturned =>
        /\ \A n \in nodes : ~Reserved(Last(n.path))
        /\ \A ns \in namespaces : ~Reserved(ns)

\* C6 as stated: after cleanup() returns, the reserved namespace itself no
\* longer exists.
C6_NamespaceRemoved ==
    CleanupReturned => NAMESPACE \notin namespaces

\* C6: cleanup() removes the namespaces nested under the reserved namespace
\* and leaves the reserved namespace itself: when it exists before a
\* cleanup() that returns, it exists after, and no nested namespace does.
C6_NamespaceKept ==
    (CleanupReturned /\ NAMESPACE \in before.scene.namespaces) =>
        /\ NAMESPACE \in namespaces
        /\ \A ns \in namespaces : ~Reserved(ns)

\* a cleanup() that returned after deleting nodes of the reserved namespace
\* and removing a namespace nested under it
C6_Witness ==
    /\ CleanupReturned
    /\ NAMESPACE \in before.scene.namespaces
    /\ \E n \in before.scene.nodes : Reserved(Last(n.path))
    /\ \E ns \in before.scene.namespaces : Reserved(ns)
    /\ \A n \in nodes : ~Reserved(Last(n.path))
    /\ NAMESPACE \in namespaces

\* C7: every run of _bake ends with cleanup() called, and leaves no node
\* under the reserved namespace.
C7_BakeAlwaysCleans ==
    lastOp = "bake" =>
        /\ cleanup_called
        /\ \A n \in nodes : ~Reserved(Last(n.path))

\* the scope is empty in the scene the last operation started from
ScopeWasEmpty ==
    /\ \A n \in before.scene.nodes : ~Reserved(Last(n.path))
    /\ \A ns \in before.scene.namespaces : ~Reserved(ns)

\* C8: a cleanup() right after a cleanup() leaves the scene as it found it,
\* and a cleanup() on an empty scope raises nothing and leaves every node
\* and namespace unchanged.
C8_CleanupIdempotent ==
    lastOp = "cleanup" =>
        /\ before.op = "cleanup" =>
              /\ nodes = before.scene.nodes
              /\ namespaces = before.scene.namespaces
              /\ skins = before.scene.skins
              /\ wraps = before.scene.wraps
        /\ ScopeWasEmpty =>
              /\ err.exc = "none"
              /\ nodes = before.scene.nodes
              /\ namespaces = before.scene.namespaces

\* the segments of a path string and of a pattern
Segments(p) == SelectSeq(Split(p, Bar), LAMBDA seg : seg # <<>>)
PatternSegments(p) == Tail(Split(p, Bar))

\* a segment after its first ":", nothing when it has none
AfterFirstColon(seg) ==
    IF \E i \in DOMAIN seg : seg[i] = ":"
    THEN SubSeq(seg, (CHOOSE i \in DOMAIN seg :
                         seg[i] = ":" /\ \A j \in 1..(i - 1) : seg[j] # ":") + 1,
                Len(seg))
    ELSE <<>>

\* the binding of the target mesh, if any
TargetSkin == { s \in skins : FullPath(s.geom) = ui.target }

\* C9 as stated: the rebuilt binding is asked for with one pattern per raw
\* influence, in order, no segment of a pattern empty or still qualified by
\* a namespace, and with the raw weights.
C9_NoPrefixLeft ==
    (lastOp = "bake" /\ skin_request.made) =>
        /\ Len(skin_request.influence_objects) = Len(skin_request.raw)
        /\ skin_request.weilghts = skin_request.raw_weights
        /\ \A i \in DOMAIN skin_request.influence_objects :
              LET segs == PatternSegments(skin_request.influence_objects[i])
              IN  /\ skin_request.influence_objects[i][1] = "*"
                  /\ Len(segs) = Len(Segments(skin_request.raw[i]))
                  /\ \A k \in DOMAIN segs :
                        /\ segs[k] # <<>>
                        /\ \A c \in DOMAIN segs[k] : segs[k][c] # ":"

\* C9: the rebuilt binding is asked for with one pattern per raw influence,
\* in order, the i-th being "*" followed by "|" and what stands after the
\* first ":" of each segment of the i-th raw path (a segment with several
\* prefixes keeps all but the first), and with the raw weights; the binding
\* made carries those weights.
C9_FirstPrefixRemoved ==
    (lastOp = "bake" /\ skin_request.made) =>
        /\ Len(skin_request.influence_objects) = Len(skin_request.raw)
        /\ skin_request.weilghts = skin_request.raw_weights
        /\ skin_request.geom = ui.target
        /\ \A i \in DOMAIN skin_request.influence_objects :
              LET segs == PatternSegments(skin_request.influence_objects[i])
                  raw == Segments(skin_request.raw[i])
              IN  /\ skin_request.influence_objects[i][1] = "*"
                  /\ Len(segs) = Len(raw)
                  /\ \A k \in DOMAIN segs : segs[k] = AfterFirstColon(raw[k])
        /\ err.exc = "none" =>
              \E s \in TargetSkin : s.weights = skin_request.raw_weights

\* a bake that rebuilt a binding of two influences, one of them a joint
\* whose own name is in a namespace
C9_Witness ==
    /\ lastOp = "bake"
    /\ skin_request.made
    /\ err.exc = "none"
    /\ Len(skin_request.raw) = 2
    /\ \E i \in DOMAIN skin_request.influence_objects :
          \E k \in DOMAIN PatternSegments(skin_request.influence_objects[i]) :
              \E c \in DOMAIN PatternSegments(skin_request.influence_objects[i])[k] :
                  PatternSegments(skin_request.influence_objects[i])[k][c] = ":"

\* C10 as stated: the bake primitive is called, with the target unbound, on
\* the namespaced duplicate of the source mesh and the namespaced root, the
\* real target mesh and the real root, and the influence count of the panel.
C10_DrivenSourceDestReal ==
    (lastOp = "bake" /\ bake_call.made) =>
        /\ ~bake_call.bound
        /\ bake_call.sm = NAMESPACE \o Colon \o Last(Split(ui.source, Bar))
        /\ bake_call.ss = NAMESPACE \o Colon \o Last(RootSegs)
        /\ bake_call.dm = ui.target
        /\ bake_call.ds = ui.root
        /\ bake_call.mi = ui.influence

\* C10: the bake primitive is called, with the target unbound, on the
\* namespaced duplicate of the target mesh and the namespaced root as source
\* pair, and the real target mesh and again the namespaced root as
\* destination pair, with the influence count of the panel.
C10_DrivenTargetShadow ==
    (lastOp = "bake" /\ bake_call.made) =>
        /\ ~bake_call.bound
        /\ bake_call.sm = NAMESPACE \o Colon \o TargetMesh
        /\ bake_call.ss = NAMESPACE \o Colon \o Last(RootSegs)
        /\ bake_call.dm = ui.target
        /\ bake_call.ds = NAMESPACE \o Colon \o Last(RootSegs)
        /\ bake_call.mi = ui.influence

\* a bake that found the target bound, unbound it and called the primitive
\* with the larger influence count
C10_Witness ==
    /\ lastOp = "bake"
    /\ bake_call.made
    /\ \E s \in before.scene.skins : FullPath(s.geom) = ui.target
    /\ bake_call.mi = MaxInfluenceNumber
    /\ err.exc = "none"

====
